---- MODULE Spec2Model ----
(***************************************************************************)
(* Model of custom_components/mbapi2020/__init__.py:                       *)
(*   async_setup_entry      the vehicle load at startup                    *)
(*   MercedesMeContext      on_dataload_complete, the connected callback   *)
(*   async_unload_entry     teardown                                       *)
(*   MercedesMeEntity       _get_car_value / device_retrieval_status       *)
(* One step of a coroutine is the code between two awaits.  Strings are    *)
(* sequences of one-character strings, so that `in`, strip() and           *)
(* comparison are computed as Python computes them.                        *)
(***************************************************************************)
EXTENDS Integers, Sequences, FiniteSets, TLC

\* ------------------------------------------------------------------ bounds

\* Longest master-data list ("assignedVehicles") the API returns.
MaxCars == 2

\* Most successful push connections (first connect plus reconnects).
MaxConnects == 2

\* ----------------------------------------------------------------- strings

Whitespace == {" "}

RECURSIVE lstrip(_)
lstrip(s) == IF s # <<>> /\ Head(s) \in Whitespace THEN lstrip(Tail(s)) ELSE s

RECURSIVE rstrip(_)
rstrip(s) ==
  IF s # <<>> /\ s[Len(s)] \in Whitespace THEN rstrip(SubSeq(s, 1, Len(s) - 1)) ELSE s

\* str.strip()
strip(s) == rstrip(lstrip(s))

\* Python's `needle in hay` for two strings: needle occurs as a substring.
StrIn(needle, hay) ==
  \E i \in 0..(Len(hay) - Len(needle)) : SubSeq(hay, i + 1, i + Len(needle)) = needle

\* dict.get(key, default)
DictGet(d, key, default) == IF key \in DOMAIN d THEN d[key] ELSE default

\* ------------------------------------------------------------------ inputs

\* Values of config_entry.options.get("excluded_cars", ""): the option is a
\* string (its default is ""); an entry without the option reads as "".
ExcludedOptions == {<<>>, <<"A">>, <<"B", ",", "A">>}

\* The identifying keys of one master-data vehicle: a vin, a vin and a fin, or
\* only a fin.  Identifiers are never empty.
VehicleIds ==
  { [vin |-> <<"A">>],
    [vin |-> <<"B">>, fin |-> <<"A">>],
    [fin |-> <<"A">>] }

\* licensePlate as reported: the key missing, or a string that is empty,
\* only whitespace, or a plate.
ReportedPlates == {<<>>, <<" ">>, <<"P">>}

Vehicles ==
  VehicleIds \cup { id @@ [licensePlate |-> p] : id \in VehicleIds, p \in ReportedPlates }

RECURSIVE ListsUpTo(_, _)
ListsUpTo(S, n) ==
  IF n = 0 THEN {<<>>}
  ELSE LET shorter == ListsUpTo(S, n - 1)
       IN shorter \cup { Append(l, x) : l \in {m \in shorter : Len(m) = n - 1}, x \in S }

\* masterdata.get("assignedVehicles") as get_user_info may return it.
MasterDataLists == ListsUpTo(Vehicles, MaxCars)

\* capabilities["commands"] as get_car_capabilities_commands may return it.
CommandResults ==
  { <<>>, <<[commandName |-> "DOORS_LOCK", isAvailable |-> TRUE]>> }

\* const.MERCEDESME_COMPONENTS: the platforms forwarded on the first connect.
MERCEDESME_COMPONENTS == {"sensor", "lock"}

\* ------------------------------------------------------------------- state

VARIABLES
  pc,                   \* position of async_setup_entry
  excluded_cars,        \* config_entry.options.get("excluded_cars", "")
  token_info,           \* "unset", "token" or "None"
  masterdata,           \* masterdata.get("assignedVehicles")
  idx,                  \* position of the for loop in masterdata (1-based)
  vin,                  \* loop local: vin of the current vehicle
  features,             \* loop local: commandName -> isAvailable set on Features()
  failed,               \* capability calls that failed for the vehicle in the loop body
  cars,                 \* mercedes.client.cars
  devices,              \* device registry entries created by this setup
  calls,                \* REST calls made so far: <<api, vin>>
  reauthFlows,          \* re-authentication flows started
  wsTask,               \* hass.loop.create_task(mercedes.ws_connect()) was called
  hassData,             \* hass.data[DOMAIN] holds the context
  listener,             \* config_entry.add_update_listener was called
  result,               \* "running", "True", "False" or "ConfigEntryNotReady"
  raisedBy,             \* the call whose exception ended setup, or "none"
  startup,              \* what lines 197-210 have done so far, in program order
  rcp_reported,         \* what is_car_rcp_supported returned, per appended car
  entry_setup_complete, \* MercedesMeContext.entry_setup_complete
  forwards,             \* component -> async_forward_entry_setup tasks created
  connects,             \* invocations of on_dataload_complete so far
  pcUnload,             \* position of async_unload_entry
  stopped,              \* websocket.async_stop() has completed
  unload_ok,            \* what async_unload_entry returned: "none", "True", "False", "raised"
  readCar,              \* the Car object an entity reads
  readResult            \* what the entity's read returned

setupVars ==
  <<pc, excluded_cars, token_info, masterdata, idx, vin, features, failed, cars,
    devices, calls, reauthFlows, wsTask, hassData, listener, result, raisedBy,
    startup, rcp_reported>>

contextVars == <<entry_setup_complete, forwards, connects>>

unloadVars == <<pcUnload, stopped, unload_ok>>

readVars == <<readCar, readResult>>

vars == <<setupVars, contextVars, unloadVars, readVars>>

\* Features(): no command flag set yet, every flag at its class default.
DefaultFeatures == <<>>

\* Python values an entity reads: None, a string (read whole, never taken
\* apart), or an object with attributes.
PyNone == [k |-> "none"]

PyStr(s) == [k |-> "str", s |-> s]

PyObj(attrs) == [k |-> "obj", a |-> attrs]

\* A Car before any telemetry is written: only what async_setup_entry sets.
NoCar == PyObj(<<>>)

\* No read has been made yet.
NoRead == [op |-> "none"]

\* The state before async_setup_entry runs; the option is the entry's.
Init ==
  /\ pc = "set_rlock_mode"
  /\ excluded_cars \in ExcludedOptions
  /\ token_info = "unset"
  /\ masterdata = <<>>
  /\ idx = 1
  /\ vin = <<>>
  /\ features = DefaultFeatures
  /\ failed = {}
  /\ cars = <<>>
  /\ devices = {}
  /\ calls = {}
  /\ reauthFlows = 0
  /\ wsTask = FALSE
  /\ hassData = FALSE
  /\ listener = FALSE
  /\ result = "running"
  /\ raisedBy = "none"
  /\ startup = <<>>
  /\ rcp_reported = <<>>
  /\ entry_setup_complete = FALSE
  /\ forwards = [c \in MERCEDESME_COMPONENTS |-> 0]
  /\ connects = 0
  /\ pcUnload = "idle"
  /\ stopped = FALSE
  /\ unload_ok = "none"
  /\ readCar = NoCar
  /\ readResult = NoRead

\* --------------------------------------------------- async_setup_entry

\* The identifier of a master-data vehicle: its vin, or its fin when the vin
\* key is missing (car.get("vin") is None).
VinOf(car) == IF "vin" \in DOMAIN car THEN car["vin"] ELSE car["fin"]

\* Mutant: the option compared as a whole (`vin == option`), not searched.
IsExcludedWholeOption(v, option) == v = option

\* `vin in config_entry.options.get("excluded_cars", "")`
IsExcluded(v, option) == StrIn(v, option)

\* Mutant: the fallback taken only for an empty plate (`if not licenseplate:`),
\* without strip().
LicensePlateNoStrip(car, v) ==
  LET reported == DictGet(car, "licensePlate", v)
  IN IF reported = <<>> THEN v ELSE reported

\* current_car.licenseplate: the reported plate, or the vin when the key is
\* missing or the plate strips to the empty string.
LicensePlate(car, v) ==
  LET reported == DictGet(car, "licensePlate", v)
  IN IF strip(reported) = <<>> THEN v ELSE reported

\* The device registry entry of a vehicle; its name takes no strip() fallback.
DeviceEntry(car, v) == [identifier |-> v, name |-> DictGet(car, "licensePlate", v)]

\* setattr(features, commandName, isAvailable) for each reported command, in
\* the order reported: a later entry of the same name overwrites an earlier.
RECURSIVE SetFeatures(_, _)
SetFeatures(f, commands) ==
  IF commands = <<>> THEN f
  ELSE LET c == Head(commands)
       IN SetFeatures((c.commandName :> c.isAvailable) @@ f, Tail(commands))

\* CarAttribute(value, retrievalstatus, timestamp)
CarAttribute(value, status, timestamp) ==
  [value |-> value, retrievalstatus |-> status, timestamp |-> timestamp]

\* Mutant: the reported value is not overwritten before the branch.
RcpGateReported(reported) == reported

\* The value of rcp_supported the branch at `if rcp_supported:` tests: the
\* reported value is overwritten with False right before it.
RcpGate(reported) == FALSE

\* supportedSettings lists get_car_rcp_supported_settings may return.
RcpSettingsResults == {<<>>, <<"socLimit">>}

\* An exception the outer try turns into ConfigEntryNotReady (aiohttp.ClientError,
\* WebsocketError) or raises as it is (ConfigEntryNotReady of the token step).
Abort(call) ==
  /\ pc' = "done"
  /\ result' = "ConfigEntryNotReady"
  /\ raisedBy' = call

\* MercedesMeContext(...) is constructed, then await client.set_rlock_mode().
SetRlockMode ==
  /\ pc = "set_rlock_mode"
  /\ \/ /\ pc' = "async_get_cached_token"
        /\ UNCHANGED <<result, raisedBy>>
     \/ Abort("set_rlock_mode")
  /\ UNCHANGED <<excluded_cars, token_info, masterdata, idx, vin, features, failed,
                 cars, devices, calls, reauthFlows, wsTask, hassData, listener>>
  /\ UNCHANGED <<startup, rcp_reported, contextVars, unloadVars, readVars>>

\* Mutant: `return False` missing after the re-authentication flow is started.
AsyncGetCachedTokenNoReturn ==
  /\ pc = "async_get_cached_token"
  /\ \/ /\ token_info' = "token"
        /\ UNCHANGED reauthFlows
     \/ /\ token_info' = "None"
        /\ reauthFlows' = reauthFlows + 1
  /\ pc' = "get_user_info"
  /\ UNCHANGED <<excluded_cars, masterdata, idx, vin, features, failed, cars, devices,
                 calls, wsTask, hassData, listener, result, raisedBy>>
  /\ UNCHANGED <<startup, rcp_reported, contextVars, unloadVars, readVars>>

\* await oauth.async_get_cached_token(): a token, None (re-authentication is
\* started and setup returns False) or aiohttp.ClientError (ConfigEntryNotReady).
AsyncGetCachedToken ==
  /\ pc = "async_get_cached_token"
  /\ \/ /\ token_info' = "token"
        /\ pc' = "get_user_info"
        /\ UNCHANGED <<reauthFlows, result, raisedBy>>
     \/ /\ token_info' = "None"
        /\ reauthFlows' = reauthFlows + 1
        /\ pc' = "done"
        /\ result' = "False"
        /\ UNCHANGED raisedBy
     \/ /\ Abort("async_get_cached_token")
        /\ UNCHANGED <<token_info, reauthFlows>>
  /\ UNCHANGED <<excluded_cars, masterdata, idx, vin, features, failed, cars, devices,
                 calls, wsTask, hassData, listener>>
  /\ UNCHANGED <<startup, rcp_reported, contextVars, unloadVars, readVars>>

\* await api.get_user_info(): the master data, or aiohttp.ClientError.
GetUserInfo(lists) ==
  /\ pc = "get_user_info"
  /\ calls' = calls \cup {<<"get_user_info", <<>>>>}
  /\ \/ /\ \E md \in lists : masterdata' = md
        /\ idx' = 1
        /\ pc' = "for_car"
        /\ UNCHANGED <<result, raisedBy>>
     \/ /\ Abort("get_user_info")
        /\ UNCHANGED <<masterdata, idx>>
  /\ UNCHANGED <<excluded_cars, token_info, vin, features, failed, cars, devices,
                 reauthFlows, wsTask, hassData, listener>>
  /\ UNCHANGED <<startup, rcp_reported, contextVars, unloadVars, readVars>>

\* `for car in masterdata.get("assignedVehicles")`: the next vehicle's vin is
\* taken and tested against the exclusion option; an excluded vehicle is
\* skipped.  No capability call has failed yet for the vehicle taken.
ForCar ==
  /\ pc = "for_car"
  /\ IF idx > Len(masterdata)
       THEN /\ pc' = "update_poll_states"
            /\ failed' = {}
            /\ UNCHANGED <<idx, vin>>
       ELSE LET v == VinOf(masterdata[idx])
            IN /\ vin' = v
               /\ failed' = {}
               /\ IF IsExcluded(v, excluded_cars)
                    THEN idx' = idx + 1 /\ pc' = "for_car"
                    ELSE idx' = idx /\ pc' = "get_car_capabilities"
  /\ UNCHANGED <<excluded_cars, token_info, masterdata, features, cars, devices, calls,
                 reauthFlows, wsTask, hassData, listener, result, raisedBy>>
  /\ UNCHANGED <<startup, rcp_reported, contextVars, unloadVars, readVars>>

\* await api.get_car_capabilities(vin); aiohttp.ClientError is logged.  Then
\* features = Features().
GetCarCapabilities ==
  /\ pc = "get_car_capabilities"
  /\ calls' = calls \cup {<<"get_car_capabilities", vin>>}
  /\ \/ failed' = failed
     \/ failed' = failed \cup {"get_car_capabilities"}
  /\ features' = DefaultFeatures
  /\ pc' = "get_car_capabilities_commands"
  /\ UNCHANGED <<excluded_cars, token_info, masterdata, idx, vin, cars, devices,
                 reauthFlows, wsTask, hassData, listener, result, raisedBy>>
  /\ UNCHANGED <<startup, rcp_reported, contextVars, unloadVars, readVars>>

\* await api.get_car_capabilities_commands(vin): each reported command is set
\* on features; aiohttp.ClientError is logged.  Then the device registry entry
\* is created and rcp_options = RcpOptions().
GetCarCapabilitiesCommands ==
  /\ pc = "get_car_capabilities_commands"
  /\ calls' = calls \cup {<<"get_car_capabilities_commands", vin>>}
  /\ \/ /\ \E commands \in CommandResults : features' = SetFeatures(features, commands)
        /\ failed' = failed
     \/ /\ failed' = failed \cup {"get_car_capabilities_commands"}
        /\ features' = features
  /\ devices' = devices \cup {DeviceEntry(masterdata[idx], vin)}
  /\ pc' = "is_car_rcp_supported"
  /\ UNCHANGED <<excluded_cars, token_info, masterdata, idx, vin, cars, reauthFlows,
                 wsTask, hassData, listener, result, raisedBy>>
  /\ UNCHANGED <<startup, rcp_reported, contextVars, unloadVars, readVars>>

\* The Car appended for the current vehicle.
CurrentCar(car, v, f, rcp_options) ==
  [finorvin |-> v, licenseplate |-> LicensePlate(car, v), features |-> f,
   rcp_options |-> rcp_options]

\* await api.is_car_rcp_supported(vin): the reported value is recorded, the
\* settings branch is taken when RcpGate allows it, and the Car is built and
\* appended.  The call is in no try of its own: aiohttp.ClientError reaches the
\* outer except.
IsCarRcpSupported ==
  /\ pc = "is_car_rcp_supported"
  /\ \/ \E reported \in BOOLEAN, settings \in RcpSettingsResults :
          LET supported == [rcp_supported |-> CarAttribute(reported, "VALID", 0)]
              fetch == RcpGate(reported)
              rcp_options ==
                IF fetch /\ settings # <<>>
                  THEN supported @@
                       [rcp_supported_settings |-> CarAttribute(settings, "VALID", 0)]
                  ELSE supported
          IN /\ calls' = calls \cup {<<"is_car_rcp_supported", vin>>}
                           \cup (IF fetch
                                   THEN {<<"get_car_rcp_supported_settings", vin>>}
                                        \cup (IF settings # <<>>
                                                THEN {<<"get_car_rcp_settings", vin>>}
                                                ELSE {})
                                   ELSE {})
             /\ cars' = Append(cars, CurrentCar(masterdata[idx], vin, features, rcp_options))
             /\ rcp_reported' = Append(rcp_reported, reported)
             /\ idx' = idx + 1
             /\ pc' = "for_car"
             /\ UNCHANGED <<result, raisedBy>>
     \/ /\ calls' = calls \cup {<<"is_car_rcp_supported", vin>>}
        /\ Abort("is_car_rcp_supported")
        /\ UNCHANGED <<cars, idx, rcp_reported>>
  /\ UNCHANGED <<excluded_cars, token_info, masterdata, vin, features, failed, devices,
                 reauthFlows, wsTask, hassData, listener>>
  /\ UNCHANGED <<startup, contextVars, unloadVars, readVars>>

\* Mutant: the ws_connect task is created and the context stored before the
\* initial poll is awaited.
UpdatePollStatesPublishFirst ==
  /\ pc = "update_poll_states"
  /\ calls' = calls \cup {<<"update_poll_states", <<>>>>}
  /\ wsTask' = TRUE
  /\ hassData' = TRUE
  /\ \/ /\ listener' = TRUE
        /\ startup' = <<"create_task", "hass.data", "update_poll_states",
                        "add_update_listener">>
        /\ pc' = "done"
        /\ result' = "True"
        /\ UNCHANGED raisedBy
     \/ /\ Abort("update_poll_states")
        /\ startup' = <<"create_task", "hass.data">>
        /\ UNCHANGED listener
  /\ UNCHANGED <<excluded_cars, token_info, masterdata, idx, vin, features, failed, cars,
                 devices, reauthFlows>>
  /\ UNCHANGED <<rcp_reported, contextVars, unloadVars, readVars>>

\* Mutant: the context is stored in hass.data[DOMAIN] before the ws_connect
\* task is created (lines 199 and 201 exchanged).
UpdatePollStatesDataFirst ==
  /\ pc = "update_poll_states"
  /\ calls' = calls \cup {<<"update_poll_states", <<>>>>}
  /\ \/ /\ wsTask' = TRUE
        /\ hassData' = TRUE
        /\ listener' = TRUE
        /\ startup' = <<"update_poll_states", "hass.data", "create_task",
                        "add_update_listener">>
        /\ pc' = "done"
        /\ result' = "True"
        /\ UNCHANGED raisedBy
     \/ /\ Abort("update_poll_states")
        /\ UNCHANGED <<wsTask, hassData, listener, startup>>
  /\ UNCHANGED <<excluded_cars, token_info, masterdata, idx, vin, features, failed, cars,
                 devices, reauthFlows>>
  /\ UNCHANGED <<rcp_reported, contextVars, unloadVars, readVars>>

\* await client.update_poll_states(); then the ws_connect task is created, the
\* context is stored in hass.data[DOMAIN], the update listener is registered
\* and setup returns True: no await separates them, and startup keeps their
\* order.  aiohttp.ClientError and WebsocketError end setup
\* with ConfigEntryNotReady.
UpdatePollStates ==
  /\ pc = "update_poll_states"
  /\ calls' = calls \cup {<<"update_poll_states", <<>>>>}
  /\ \/ /\ wsTask' = TRUE
        /\ hassData' = TRUE
        /\ listener' = TRUE
        /\ startup' = <<"update_poll_states", "create_task", "hass.data",
                        "add_update_listener">>
        /\ pc' = "done"
        /\ result' = "True"
        /\ UNCHANGED raisedBy
     \/ /\ Abort("update_poll_states")
        /\ UNCHANGED <<wsTask, hassData, listener, startup>>
  /\ UNCHANGED <<excluded_cars, token_info, masterdata, idx, vin, features, failed, cars,
                 devices, reauthFlows>>
  /\ UNCHANGED <<rcp_reported, contextVars, unloadVars, readVars>>

\* async_setup_entry, with the master data drawn from `lists`.
AsyncSetupEntry(lists) ==
  \/ SetRlockMode
  \/ AsyncGetCachedToken
  \/ GetUserInfo(lists)
  \/ ForCar
  \/ GetCarCapabilities
  \/ GetCarCapabilitiesCommands
  \/ IsCarRcpSupported
  \/ UpdatePollStates

Next == AsyncSetupEntry(MasterDataLists)

Spec == Init /\ [][Next]_vars

\* --------------------------------------------------- MercedesMeContext

\* Mutant: the platforms are forwarded on every call, entry_setup_complete
\* not consulted.
OnDataloadCompleteNoLatch ==
  /\ wsTask
  /\ ~stopped
  /\ connects < MaxConnects
  /\ forwards' = [c \in MERCEDESME_COMPONENTS |-> forwards[c] + 1]
  /\ entry_setup_complete' = TRUE
  /\ connects' = connects + 1
  /\ UNCHANGED <<setupVars, unloadVars, readVars>>

\* on_dataload_complete, the callback client.attempt_connect invokes after each
\* successful push connection (the ws_connect task runs until the websocket is
\* stopped): the platforms are forwarded unless entry_setup_complete is set.
OnDataloadComplete ==
  /\ wsTask
  /\ ~stopped
  /\ connects < MaxConnects
  /\ forwards' = IF ~entry_setup_complete
                   THEN [c \in MERCEDESME_COMPONENTS |-> forwards[c] + 1]
                   ELSE forwards
  /\ entry_setup_complete' = TRUE
  /\ connects' = connects + 1
  /\ UNCHANGED <<setupVars, unloadVars, readVars>>

\* --------------------------------------------------- async_unload_entry

\* async_unload_entry of a loaded entry: the services are removed and
\* websocket.async_stop() is awaited.
UnloadEntry ==
  /\ result = "True"
  /\ pcUnload = "idle"
  /\ pcUnload' = "async_stop"
  /\ UNCHANGED <<stopped, unload_ok>>
  /\ UNCHANGED <<setupVars, contextVars, readVars>>

\* await websocket.async_stop() returns, or raises: then nothing more runs.
AsyncStop ==
  /\ pcUnload = "async_stop"
  /\ \/ /\ stopped' = TRUE
        /\ pcUnload' = "async_unload_platforms"
        /\ UNCHANGED unload_ok
     \/ /\ pcUnload' = "done"
        /\ unload_ok' = "raised"
        /\ UNCHANGED stopped
  /\ UNCHANGED <<setupVars, contextVars, readVars>>

\* Mutant: hass.data[DOMAIN] deleted whatever unload_ok is.
AsyncUnloadPlatformsAlwaysDelete ==
  /\ pcUnload = "async_unload_platforms"
  /\ \E ok \in BOOLEAN : unload_ok' = IF ok THEN "True" ELSE "False"
  /\ hassData' = FALSE
  /\ pcUnload' = "done"
  /\ UNCHANGED <<pc, excluded_cars, token_info, masterdata, idx, vin, features, failed,
                 cars, devices, calls, reauthFlows, wsTask, listener, result, raisedBy>>
  /\ UNCHANGED <<startup, rcp_reported, stopped, contextVars, readVars>>

\* await async_unload_platforms(...) returns unload_ok; hass.data[DOMAIN] is
\* deleted when it is true, and unload_ok is returned.
AsyncUnloadPlatforms ==
  /\ pcUnload = "async_unload_platforms"
  /\ \E ok \in BOOLEAN :
       /\ unload_ok' = IF ok THEN "True" ELSE "False"
       /\ hassData' = IF ok THEN FALSE ELSE hassData
  /\ pcUnload' = "done"
  /\ UNCHANGED <<pc, excluded_cars, token_info, masterdata, idx, vin, features, failed,
                 cars, devices, calls, reauthFlows, wsTask, listener, result, raisedBy>>
  /\ UNCHANGED <<startup, rcp_reported, stopped, contextVars, readVars>>

AsyncUnloadEntry ==
  \/ UnloadEntry
  \/ AsyncStop
  \/ AsyncUnloadPlatforms

\* Master data of the life-cycle runs: the callback and the unload read no
\* vehicle field.
LifecycleLists == ListsUpTo({[vin |-> <<"A">>], [fin |-> <<"A">>, licensePlate |-> <<"P">>]}, 1)

NextLifecycle ==
  \/ AsyncSetupEntry(LifecycleLists)
  \/ OnDataloadComplete
  \/ AsyncUnloadEntry

\* Setup, the push connections and the unload of one config entry.
SpecLifecycle == Init /\ [][NextLifecycle]_vars

\* ----------------------------------------------------- MercedesMeEntity

\* An AttributeError leaving a read.
PyRaise == [k |-> "raise"]

\* Mutant: getattr(obj, name) without a default raises AttributeError for a
\* missing attribute.
GetAttrNoDefault(obj, name, default) ==
  IF obj.k = "obj" /\ name \in DOMAIN obj.a THEN obj.a[name] ELSE PyRaise

\* getattr(obj, name, default): the attribute when obj has it, else default.
\* None and strings have none of the names read here.
GetAttr(obj, name, default) ==
  IF obj.k = "obj" /\ name \in DOMAIN obj.a THEN obj.a[name] ELSE default

\* MercedesMeEntity._get_car_value; a falsy feature or object name (None, "")
\* is the empty name.
GetCarValue(car, feature, object_name, attrib_name, default_value) ==
  IF object_name # ""
    THEN IF feature = ""
           THEN GetAttr(GetAttr(car, object_name, default_value),
                        attrib_name, default_value)
           ELSE GetAttr(GetAttr(GetAttr(car, feature, default_value),
                                object_name, default_value),
                        attrib_name, default_value)
    ELSE GetAttr(car, attrib_name, default_value)

\* MercedesMeEntity.device_retrieval_status
DeviceRetrievalStatus(car, sensor_name, feature, object_name) ==
  IF sensor_name = "Car"
    THEN PyStr("VALID")
    ELSE GetCarValue(car, feature, object_name, "retrievalstatus", PyStr("error"))

\* MercedesMeEntity.__init__: self._car is the first car of client.cars whose
\* finorvin is the entity's vin.
EntityCar(carList, v) ==
  carList[CHOOSE j \in 1..Len(carList) :
            /\ carList[j].finorvin = v
            /\ \A k \in 1..(j - 1) : carList[k].finorvin # v]

\* self._licenseplate, which is also the "car" state attribute.
EntityLicensePlate(carList, v) == EntityCar(carList, v).licenseplate

\* self._name = f"{self._licenseplate} {self._sensor_name}"
EntityName(carList, v, sensor_name) ==
  EntityLicensePlate(carList, v) \o <<" ">> \o sensor_name

\* Names an entity's sensor configuration may carry.
FeatureNames == {"", "odometer", "tires"}

ObjectNames == {"", "odo"}

AttribNames == {"value", "retrievalstatus", "licenseplate"}

SensorNames == {"Car", "Odometer"}

DefaultValues == {PyNone, PyStr("error")}

\* A written cell: a CarAttribute object.
PyCarAttribute(value, status, timestamp) ==
  PyObj([value |-> value, retrievalstatus |-> PyStr(status), timestamp |-> PyStr(timestamp)])

WrittenCells ==
  { PyCarAttribute(PyStr("42"), "VALID", "1"), PyCarAttribute(PyNone, "NOT_RECEIVED", "0") }

\* A feature object (car.odometer): none or one of its objects written.
FeatureObjects == {PyObj(<<>>)} \cup { PyObj([odo |-> c]) : c \in WrittenCells }

\* The Car objects an entity may read: the scalar fields of setup, and any part
\* of the attribute tree written or not.
CarObjects ==
  { PyObj([licenseplate |-> PyStr("P")] @@ f @@ o) :
      f \in {<<>>} \cup { [odometer |-> x] : x \in FeatureObjects },
      o \in {<<>>} \cup { [odo |-> c] : c \in WrittenCells } }

\* One read by update(): self._state = _get_car_value(...).
ReadCarValue ==
  /\ \E feature \in FeatureNames, object_name \in ObjectNames,
        attrib_name \in AttribNames, default_value \in DefaultValues :
       readResult' = [op |-> "_get_car_value", feature |-> feature,
                      object_name |-> object_name, attrib_name |-> attrib_name,
                      default_value |-> default_value,
                      value |-> GetCarValue(readCar, feature, object_name,
                                            attrib_name, default_value)]
  /\ UNCHANGED <<readCar, setupVars, contextVars, unloadVars>>

\* One call of device_retrieval_status().
ReadRetrievalStatus ==
  /\ \E sensor_name \in SensorNames, feature \in FeatureNames,
        object_name \in ObjectNames :
       readResult' = [op |-> "device_retrieval_status", sensor_name |-> sensor_name,
                      feature |-> feature, object_name |-> object_name,
                      value |-> DeviceRetrievalStatus(readCar, sensor_name, feature,
                                                      object_name)]
  /\ UNCHANGED <<readCar, setupVars, contextVars, unloadVars>>

\* The vehicle of the entity that reads.
ReadVehicle == [vin |-> <<"A">>, licensePlate |-> <<"P">>]

\* An entity of a loaded entry reads its Car object, whatever has been written
\* to the Car's attribute tree since setup.
InitRead ==
  /\ pc = "done"
  /\ excluded_cars = <<>>
  /\ token_info = "token"
  /\ masterdata = <<ReadVehicle>>
  /\ idx = 2
  /\ vin = <<"A">>
  /\ features = DefaultFeatures
  /\ failed = {}
  /\ cars = <<CurrentCar(ReadVehicle, <<"A">>, DefaultFeatures,
                         [rcp_supported |-> CarAttribute(FALSE, "VALID", 0)])>>
  /\ devices = {DeviceEntry(ReadVehicle, <<"A">>)}
  /\ calls = {<<"get_user_info", <<>>>>, <<"get_car_capabilities", <<"A">>>>,
              <<"get_car_capabilities_commands", <<"A">>>>,
              <<"is_car_rcp_supported", <<"A">>>>, <<"update_poll_states", <<>>>>}
  /\ reauthFlows = 0
  /\ wsTask = TRUE
  /\ hassData = TRUE
  /\ listener = TRUE
  /\ result = "True"
  /\ raisedBy = "none"
  /\ startup = <<"update_poll_states", "create_task", "hass.data", "add_update_listener">>
  /\ rcp_reported = <<FALSE>>
  /\ entry_setup_complete = TRUE
  /\ forwards = [c \in MERCEDESME_COMPONENTS |-> 1]
  /\ connects = 1
  /\ pcUnload = "idle"
  /\ stopped = FALSE
  /\ unload_ok = "none"
  /\ readCar \in CarObjects
  /\ readResult = NoRead

NextRead ==
  \/ ReadCarValue
  \/ ReadRetrievalStatus

SpecRead == InitRead /\ [][NextRead]_vars

\* ------------------------------------------------------------ properties

PerVehicleCalls ==
  {"get_car_capabilities", "get_car_capabilities_commands", "is_car_rcp_supported"}

\* REST calls and device registry entries made for identifier v.
TouchedFor(v) ==
  \/ \E api \in PerVehicleCalls : <<api, v>> \in calls
  \/ \E d \in devices : d.identifier = v

\* The vehicles of the first n master-data entries whose identifier does not
\* occur in the exclusion option, in list order.
Admitted(n) ==
  SelectSeq(SubSeq(masterdata, 1, n),
            LAMBDA car : ~StrIn(VinOf(car), excluded_cars))

\* The registry holds, in order, the admitted vehicles the loop has passed.
RegistryIsAdmitted(n) ==
  /\ Len(cars) = Len(Admitted(n))
  /\ \A j \in 1..Len(cars) : cars[j].finorvin = VinOf(Admitted(n)[j])

\* C1: a vehicle whose identifier (vin, or fin when the vin is missing) occurs
\* in the excluded_cars option is never appended to client.cars, and no
\* capability call or device registry entry is ever made for it; a vehicle
\* whose identifier does not occur in the option is not skipped: once the loop
\* has passed it, its capabilities were requested and it is in client.cars.
C1_ExcludedNeverIngested ==
  \A i \in 1..Len(masterdata) :
    LET v == VinOf(masterdata[i])
    IN IF StrIn(v, excluded_cars)
         THEN /\ \A j \in 1..Len(cars) : cars[j].finorvin # v
              /\ ~TouchedFor(v)
         ELSE i < idx =>
                /\ <<"get_car_capabilities", v>> \in calls
                /\ \E j \in 1..Len(cars) : cars[j].finorvin = v

\* C1 witness: setup returned True having skipped an excluded vehicle whose
\* identifier came from the fin, and loaded another.
C1_Witness ==
  /\ result = "True"
  /\ Len(cars) >= 1
  /\ \E i \in 1..Len(masterdata) :
       /\ "vin" \notin DOMAIN masterdata[i]
       /\ StrIn(VinOf(masterdata[i]), excluded_cars)

\* C2 (as claimed): once get_car_capabilities or get_car_capabilities_commands
\* has failed for the current vehicle, no exception ends the per-vehicle step,
\* and when the step is over the vehicle is the last entry of client.cars with
\* Features at its defaults (the loop then goes on with the next vehicle).
C2_CapabilityFailureKeepsVehicle ==
  failed # {} =>
    /\ raisedBy \notin PerVehicleCalls
    /\ pc \in {"for_car", "done"} =>
         /\ Len(cars) >= 1
         /\ cars[Len(cars)].finorvin = vin
         /\ cars[Len(cars)].features = DefaultFeatures

\* C3 (as claimed): among get_user_info and the three per-vehicle calls only
\* get_user_info ends setup; no failure of a per-vehicle call does, and a setup
\* that is over with no failure of get_user_info, of the token or of the poll
\* holds every admitted vehicle.
C3_OnlyListFailureIsFatal ==
  /\ raisedBy \notin PerVehicleCalls
  /\ (pc = "done" /\ token_info = "token"
        /\ raisedBy \notin {"get_user_info", "update_poll_states"})
       => RegistryIsAdmitted(Len(masterdata))

\* C4: a setup ended by a connection or websocket error of any step is
\* surfaced as ConfigEntryNotReady, and then the context is not in
\* hass.data[DOMAIN], the ws_connect task was not created and the update
\* listener is not registered.
C4_NotReadyPublishesNothing ==
  /\ raisedBy # "none" => result = "ConfigEntryNotReady"
  /\ result = "ConfigEntryNotReady" => ~hassData /\ ~wsTask /\ ~listener

\* C4 witness: the initial poll failed after a vehicle had been loaded.
C4_Witness ==
  /\ raisedBy = "update_poll_states"
  /\ result = "ConfigEntryNotReady"
  /\ Len(cars) >= 1

\* C5: after any number of invocations of on_dataload_complete each component
\* has been forwarded exactly once (not at all before the first invocation),
\* and entry_setup_complete is true from the first invocation on.
C5_ForwardedExactlyOnce ==
  /\ \A c \in MERCEDESME_COMPONENTS : forwards[c] = IF connects >= 1 THEN 1 ELSE 0
  /\ entry_setup_complete <=> connects >= 1

\* C5 witness: the callback ran for a reconnect.
C5_Witness ==
  /\ connects >= 2
  /\ entry_setup_complete
  /\ \A c \in MERCEDESME_COMPONENTS : forwards[c] = 1

\* The attribute path a read addresses: the attribute of the car itself for
\* a falsy object name, else of the object, below the feature when one is named.
AddressedPath(feature, object_name, attrib_name) ==
  IF object_name = "" THEN <<attrib_name>>
  ELSE IF feature = "" THEN <<object_name, attrib_name>>
  ELSE <<feature, object_name, attrib_name>>

\* Whether every segment of the path has been written below obj.
RECURSIVE Written(_, _)
Written(obj, path) ==
  \/ path = <<>>
  \/ /\ obj.k = "obj"
     /\ Head(path) \in DOMAIN obj.a
     /\ Written(obj.a[Head(path)], Tail(path))

RECURSIVE ValueAt(_, _)
ValueAt(obj, path) == IF path = <<>> THEN obj ELSE ValueAt(obj.a[Head(path)], Tail(path))

\* C6 (as claimed): no read raises, and a never-written attribute reads as
\* absent with retrieval status NOT_RECEIVED: read with default None its value
\* is None, and device_retrieval_status of a sensor other than "Car" is
\* "NOT_RECEIVED".
C6_AbsentReadsNotReceived ==
  /\ readResult.op # "none" => readResult.value # PyRaise
  /\ (readResult.op = "_get_car_value" /\ readResult.default_value = PyNone
        /\ ~Written(readCar, AddressedPath(readResult.feature, readResult.object_name,
                                           readResult.attrib_name)))
       => readResult.value = PyNone
  /\ (readResult.op = "device_retrieval_status" /\ readResult.sensor_name # "Car"
        /\ ~Written(readCar, AddressedPath(readResult.feature, readResult.object_name,
                                           "retrievalstatus")))
       => readResult.value = PyStr("NOT_RECEIVED")

\* C6 (amended): no read raises; _get_car_value returns the written value of
\* the addressed attribute and, when any segment was never written, the
\* default its caller passed; device_retrieval_status is "VALID" for the "Car"
\* sensor and otherwise "error", not "NOT_RECEIVED", for a never-written
\* attribute.
C6_AbsentReadsDefault ==
  /\ readResult.op # "none" => readResult.value # PyRaise
  /\ readResult.op = "_get_car_value" =>
       LET path == AddressedPath(readResult.feature, readResult.object_name,
                                 readResult.attrib_name)
       IN readResult.value = IF Written(readCar, path)
                               THEN ValueAt(readCar, path)
                               ELSE readResult.default_value
  /\ readResult.op = "device_retrieval_status" =>
       LET path == AddressedPath(readResult.feature, readResult.object_name,
                                 "retrievalstatus")
       IN readResult.value =
            IF readResult.sensor_name = "Car" THEN PyStr("VALID")
            ELSE IF Written(readCar, path) THEN ValueAt(readCar, path)
            ELSE PyStr("error")

\* C6 witness: device_retrieval_status was read for an object never written
\* below a feature that exists.
C6_Witness ==
  /\ readResult.op = "device_retrieval_status"
  /\ readResult.sensor_name # "Car"
  /\ readResult.feature = "odometer"
  /\ readResult.object_name = "odo"
  /\ Written(readCar, <<"odometer">>)
  /\ ~Written(readCar, <<"odometer", "odo">>)
  /\ readResult.value = PyStr("error")

\* Whether a string holds nothing but whitespace (the empty string does).
Blank(str) == \A k \in 1..Len(str) : str[k] \in Whitespace

\* C7: the licenseplate of every car of the registry is not blank: it is the
\* vehicle's identifier when the reported plate is missing, empty or only
\* whitespace, and the reported plate otherwise; so the license plate and the
\* name of an entity of that vehicle do not start blank either.
C7_IdentityNeverEmpty ==
  /\ Len(cars) = Len(Admitted(idx - 1))
  /\ \A j \in 1..Len(cars) :
       LET car == Admitted(idx - 1)[j]
           v == VinOf(car)
       IN /\ cars[j].licenseplate =
               IF "licensePlate" \notin DOMAIN car \/ Blank(car.licensePlate)
                 THEN v
                 ELSE car.licensePlate
          /\ ~Blank(cars[j].licenseplate)
          /\ ~Blank(EntityLicensePlate(cars, v))
          /\ ~Blank(SubSeq(EntityName(cars, v, <<"S">>), 1,
                           Len(EntityLicensePlate(cars, v))))

\* C7 witness: a vehicle reported with a whitespace-only plate was loaded under
\* its identifier, and one with a plate under that plate.
C7_Witness ==
  /\ result = "True"
  /\ \E j \in 1..Len(cars) :
       /\ DictGet(Admitted(idx - 1)[j], "licensePlate", <<>>) = <<" ">>
       /\ cars[j].licenseplate = cars[j].finorvin
  /\ \E j \in 1..Len(cars) : cars[j].licenseplate = <<"P">>

\* C8: hass.data[DOMAIN] of a loaded entry is gone only when async_stop has
\* completed and the platform unload succeeded; when the platform unload fails
\* the context is kept and False is returned; a successful unload ends with
\* the websocket stopped and the context gone.
C8_StopBeforeDiscard ==
  /\ (result = "True" /\ ~hassData) => (stopped /\ unload_ok = "True")
  /\ unload_ok = "False" => (hassData /\ stopped /\ pcUnload = "done")
  /\ unload_ok = "True" => (~hassData /\ stopped /\ pcUnload = "done")
  /\ pcUnload \in {"idle", "async_stop"} => (unload_ok = "none" /\ ~stopped)

\* C8 witness: the entry was unloaded after a push connection, the websocket
\* stopped and the context discarded.
C8_Witness ==
  /\ pcUnload = "done"
  /\ unload_ok = "True"
  /\ stopped
  /\ ~hassData
  /\ connects >= 1

\* C9 (as claimed): no two entries of client.cars have the same finorvin.
C9_IdentifierUnique ==
  \A i, j \in 1..Len(cars) : i # j => cars[i].finorvin # cars[j].finorvin

\* C10: while no token is held (the token call not made yet, failed, or
\* returned None) get_user_info has not been called, client.cars is empty and
\* the ws_connect task is not created; a failed token call ends setup with
\* ConfigEntryNotReady; a missing token starts exactly one re-authentication
\* flow and setup returns False; no flow is started otherwise.
C10_NoLoadWithoutToken ==
  /\ token_info # "token" =>
       /\ <<"get_user_info", <<>>>> \notin calls
       /\ cars = <<>>
       /\ ~wsTask
  /\ raisedBy = "async_get_cached_token" =>
       (result = "ConfigEntryNotReady" /\ token_info = "unset")
  /\ token_info = "None" => (result = "False" /\ pc = "done")
  /\ reauthFlows = IF token_info = "None" THEN 1 ELSE 0

\* C10 witness: the cached token was missing and setup returned False.
C10_Witness ==
  /\ token_info = "None"
  /\ result = "False"
  /\ reauthFlows = 1

\* Position of effect e in the startup record, 0 when it has not happened.
StartupPos(e) ==
  IF \E i \in 1..Len(startup) : startup[i] = e
    THEN CHOOSE i \in 1..Len(startup) : startup[i] = e
    ELSE 0

\* C11: the ws_connect task exists only once the loop has passed every
\* vehicle of the master data, client.cars holds every non-excluded vehicle,
\* and update_poll_states has been called and has returned without raising
\* before the task was created; the context is in hass.data[DOMAIN] only if
\* the task was created before it was stored.
C11_PushAfterLoadAndPoll ==
  /\ wsTask <=> StartupPos("create_task") > 0
  /\ wsTask =>
       /\ idx > Len(masterdata)
       /\ RegistryIsAdmitted(Len(masterdata))
       /\ <<"update_poll_states", <<>>>> \in calls
       /\ raisedBy = "none"
       /\ 0 < StartupPos("update_poll_states")
       /\ StartupPos("update_poll_states") < StartupPos("create_task")
  /\ hassData =>
       /\ wsTask
       /\ StartupPos("create_task") < StartupPos("hass.data")

\* C11 witness: setup went through with two vehicles in client.cars, the task
\* created and the context published.
C11_Witness ==
  /\ result = "True"
  /\ Len(cars) = 2
  /\ wsTask
  /\ hassData

\* C12: get_car_rcp_supported_settings and get_car_rcp_settings are never
\* called; every car in client.cars has in rcp_options the rcp_supported cell
\* and nothing else, and that cell holds the value is_car_rcp_supported
\* returned for it, with status VALID.
C12_RcpSettingsGatedOff ==
  /\ \A c \in calls :
       c[1] \notin {"get_car_rcp_supported_settings", "get_car_rcp_settings"}
  /\ Len(rcp_reported) = Len(cars)
  /\ \A j \in 1..Len(cars) :
       /\ DOMAIN cars[j].rcp_options = {"rcp_supported"}
       /\ cars[j].rcp_options.rcp_supported.value = rcp_reported[j]
       /\ cars[j].rcp_options.rcp_supported.retrievalstatus = "VALID"

\* C12 witness: is_car_rcp_supported reported True for a car that is now in
\* client.cars, and setup returned True.
C12_Witness ==
  /\ result = "True"
  /\ \E j \in 1..Len(cars) :
       /\ rcp_reported[j] = TRUE
       /\ cars[j].rcp_options.rcp_supported.value = TRUE

====
